---- MODULE Spec2Model ----
(***************************************************************************)
(* Model of the harvest pipeline of marktankink/twitter-scraper:           *)
(* the main scraping loop of src/main.go (account rotation, call           *)
(* accounting, ThreadTracker deduplication, merging of standalone tweets   *)
(* and self-threads into outputTweets) followed by the cursor save and the *)
(* output write.                                                           *)
(*                                                                         *)
(* A tweet is identified by its ID.  TweetOutput is modelled by the two    *)
(* fields that decide the reconciliation, ID and ThreadTweets (the IDs of  *)
(* the thread members); the payload fields (text, metrics, media, quoted   *)
(* tweet) are copied through by the code and are left out.                 *)
(***************************************************************************)
EXTENDS Integers, Sequences, FiniteSets, TLC

\* ------------------------------------------------------------------ bounds
NumIDs == 4          \* tweet IDs are 1..NumIDs
MaxRecords == 4      \* records the timeline stream delivers in one run
MaxAccounts == 2     \* configured accounts are 1..MaxAccounts at most
MaxThread == 2       \* members in one thread-detail result
MaxTokenLen == 1     \* characters in a cursor token
MaxCursorOps == 8    \* operations on the cursor store in one history
MaxThreads == 2      \* goroutines calling the cursor store at the same time
MaxCalls == 4        \* calls of the cursor store in one concurrent history

\* ------------------------------------------------------- program constants
PageSize == 20       \* GetTweets fetches pages of up to 20 tweets

IDs == 1 .. NumIDs
NoID == 0            \* the zero-value ID of a TweetResult that carries an Error

VARIABLES
    conversationOf,    \* environment: the ConversationID of every tweet ID
    accounts,          \* number of configured accounts (distinct auth tokens)
    pc,                \* position of main
    outputTweets,      \* []TweetOutput
    processedThreads,  \* ThreadTracker.processedThreads (the keys set to true)
    processedTweets,   \* ThreadTracker.processedTweets (the keys set to true)
    currentAccount,    \* index of the next account, 0-based as in the code
    lastCount,         \* len(outputTweets) at the last counted page
    TimelineCalls,     \* APICallCounter.TimelineCalls
    ThreadCalls,       \* APICallCounter.ThreadCalls
    AccountCalls,      \* APICallCounter.AccountCalls, keyed by account
    pulled,            \* history: number of records pulled from the stream
    last,              \* history: the last record pulled, the thread-detail
                       \* result it triggered, whether it appended a unit
    standaloneSeen,    \* history: IDs delivered with ID = ConversationID
    emittedBy,         \* history: IDs of the records that appended a unit
    fetchedOK,         \* history: conversations whose GetTweet returned a tweet
    fetchFailed,       \* history: conversations whose GetTweet returned an error
    replacedRoots,     \* history: roots appended as a standalone tweet whose
                       \* thread was resolved by the directly following record
    resolvedConvs,     \* history: conversations a thread unit was emitted for
    cursorSaveErr,     \* SaveCursorsToFile returned an error to main
    threadDelay,       \* history: the last iteration ran time.Sleep(5 s)
    shortPages,        \* environment: the platform may end a timeline page
                       \* before it holds PageSize records
    pagesFetched,      \* environment: timeline pages GetTweets has fetched
    inPage,            \* environment: records delivered from the current page
    \* --- the cursor store of library/scraper.go
    cursorTracker,     \* Scraper.cursorTracker: nil, or username -> cursor
    cursorFile,        \* the cursor file: whether it exists, and its content
    saving,            \* os.WriteFile in progress: the data it is writing
    cursorOps,         \* history: number of cursor-store steps taken
    lastOp,            \* history: the last cursor-store operation, its
                       \* arguments and what it returned
    saved,             \* history: the token of the most recent SaveCursor of
                       \* each subject on the current Scraper
    everSaved,         \* history: subjects SaveCursor was ever called for
    persisted,         \* history: the mapping of the last completed file write
    fileState,         \* history: "absent", "complete" or "interrupted"
    \* --- the start of main, before the scraping loop
    startPc,           \* position of main before the loop
    config,            \* the .env file and the accounts main is built with
    requests,          \* history: the outbound requests issued, in order
    validated,         \* history: SetProxy / validateAccounts have succeeded
    fatalCause,        \* history: why log.Fatal ended the run
    \* --- concurrent calls of the cursor store
    running,           \* the call every goroutine is in, and its position
    cursorMutex,       \* Scraper.cursorMutex: the writer and the readers
    started,           \* history: number of calls started
    serialTracker,     \* history: the cursorTracker of the same calls run one
                       \* at a time, in the order of their critical sections
    savedTokens,       \* history: the tokens SaveCursor was called with, by
                       \* subject
    lastSaved,         \* history: the token of the latest SaveCursor of each
                       \* subject
    phantomLoad,       \* history: a LoadCursor returned a token never saved
                       \* for its subject
    written            \* history: the cursorTracker marshalled by the last
                       \* completed write of the file

mainVars == << conversationOf, accounts, pc, outputTweets, processedThreads,
               processedTweets, currentAccount, lastCount, TimelineCalls,
               ThreadCalls, AccountCalls, pulled, last, standaloneSeen,
               emittedBy, fetchedOK, fetchFailed, replacedRoots, resolvedConvs,
               cursorSaveErr, threadDelay, shortPages, pagesFetched,
               inPage >>

cursorVars == << cursorTracker, cursorFile, saving, cursorOps, lastOp, saved,
                 everSaved, persisted, fileState >>

startVars == << startPc, config, requests, validated, fatalCause >>

concVars == << running, cursorMutex, started, serialTracker, savedTokens,
               lastSaved, phantomLoad, written >>

\* The variables the scraping loop of main does not touch.
otherVars == << cursorVars, startVars, concVars >>

vars == << mainVars, otherVars >>

\* ------------------------------------------------------------- environment
\* The conversation ID of a tweet is the ID of the conversation's root, a
\* root is its own conversation, and a root is older than its replies (IDs
\* grow with time).
Worlds == { f \in [IDs -> IDs] : \A x \in IDs : f[f[x]] = f[x] /\ f[x] <= x }

\* Sequences over S, without repetition, of length at most n.
DistinctSeqs(S, n) ==
    { s \in UNION { [1 .. k -> S] : k \in 0 .. n } :
        \A i, j \in 1 .. Len(s) : i # j => s[i] # s[j] }

\* What GetTweet(conversationID) can return: an error, or the root tweet with
\* its IsSelfThread flag and its Thread, the replies of that conversation.
\* The tweet returned is the one asked for: fullThread.ID is conv.
NoFetch == [kind |-> "none", IsSelfThread |-> FALSE, Thread |-> << >>]
FetchError == [kind |-> "error", IsSelfThread |-> FALSE, Thread |-> << >>]
GetTweet(conv) ==
    { FetchError } \cup
    { [kind |-> "ok", IsSelfThread |-> b, Thread |-> t] :
        b \in BOOLEAN,
        t \in DistinctSeqs({ x \in IDs : conversationOf[x] = conv /\ x # conv },
                           MaxThread) }

\* A TweetResult of the GetTweets channel.
ErrorRecord == [ID |-> NoID, ConversationID |-> NoID, Error |-> TRUE]
TweetRecord(id) == [ID |-> id, ConversationID |-> conversationOf[id], Error |-> FALSE]

\* The value of last before the first record.
NoRecord == [tweet |-> ErrorRecord, fetch |-> NoFetch, emitted |-> FALSE]

Range(s) == { s[i] : i \in 1 .. Len(s) }

\* --------------------------------------------------------------- the code
\* TweetOutput values.
StandaloneOutput(tweet) == [ID |-> tweet.ID, ThreadTweets |-> << >>]
ThreadOutput(conv, fullThread) == [ID |-> conv, ThreadTweets |-> fullThread.Thread]

\* Mutant of isProcessedTweet: the lookup never finds the ID.
isProcessedTweetNever(id) == FALSE

isProcessedTweet(id) == id \in processedTweets
isProcessedThread(id) == id \in processedThreads

\* Mutant of markTweetProcessed: the ID is not recorded.
markTweetProcessedDropped(id) == processedTweets

\* markTweetProcessed(id), as the new processedTweets.
markTweetProcessed(id) == processedTweets \cup { id }

\* Mutant of markThreadProcessedTweets: the root is not marked as a tweet.
markThreadProcessedTweetsNoRoot(conv, fullThread) ==
    processedTweets \cup Range(fullThread.Thread)

\* markThreadProcessed(thread), as the new processedThreads and processedTweets.
markThreadProcessedThreads(conv, fullThread) == processedThreads \cup { conv }
markThreadProcessedTweets(conv, fullThread) ==
    processedTweets \cup { conv } \cup Range(fullThread.Thread)

\* IncrementAccount(authToken), as the new AccountCalls.
IncrementAccount(a) == [AccountCalls EXCEPT ![a] = @ + 1]

\* Mutant of NextAccount: the rotation does not advance.
NextAccountStuck == currentAccount

\* The next account of the rotation.
NextAccount == (currentAccount + 1) % accounts

MainInit ==
    /\ conversationOf \in Worlds
    /\ accounts \in 1 .. MaxAccounts
    /\ pc = "loop"
    /\ outputTweets = << >>
    /\ processedThreads = {}
    /\ processedTweets = {}
    /\ currentAccount = 0
    /\ lastCount = 0
    /\ TimelineCalls = 1
    /\ ThreadCalls = 0
    /\ AccountCalls = [a \in 1 .. accounts |-> 0]
    /\ pulled = 0
    /\ last = NoRecord
    /\ standaloneSeen = {}
    /\ emittedBy = {}
    /\ fetchedOK = {}
    /\ fetchFailed = {}
    /\ replacedRoots = {}
    /\ resolvedConvs = {}
    /\ cursorSaveErr = FALSE
    /\ threadDelay = FALSE
    /\ pagesFetched = 1
    /\ inPage = 0

\* The record pulled from the GetTweets channel is the next one of the
\* current timeline page, or the first one of a page GetTweets fetches for
\* it.  A page holds at most PageSize records, a page that is followed by
\* another one held at least one, and it was full unless the platform
\* delivers short pages.
PullRecord ==
    \E newPage \in BOOLEAN :
        /\ newPage => inPage >= 1 /\ (shortPages \/ inPage = PageSize)
        /\ ~newPage => inPage < PageSize
        /\ pagesFetched' = IF newPage THEN pagesFetched + 1 ELSE pagesFetched
        /\ inPage' = IF newPage THEN 1 ELSE inPage + 1

\* Head of every iteration of the loop: count a page when the output crossed
\* a multiple of the page size, then rotate the account.
LoopHead(tweet, fetch, emitted) ==
    /\ pc = "loop"
    /\ pulled < MaxRecords
    /\ PullRecord
    /\ IF Len(outputTweets) \div PageSize > lastCount \div PageSize
       THEN /\ TimelineCalls' = TimelineCalls + 1
            /\ lastCount' = Len(outputTweets)
       ELSE UNCHANGED << TimelineCalls, lastCount >>
    /\ AccountCalls' = IncrementAccount(currentAccount + 1)
    /\ currentAccount' = NextAccount
    /\ pulled' = pulled + 1
    /\ last' = [tweet |-> tweet, fetch |-> fetch, emitted |-> emitted]
    /\ standaloneSeen' =
         IF ~tweet.Error /\ tweet.ID = tweet.ConversationID
         THEN standaloneSeen \cup { tweet.ID } ELSE standaloneSeen
    /\ emittedBy' = IF emitted THEN emittedBy \cup { tweet.ID } ELSE emittedBy
    /\ fetchedOK' =
         IF fetch.kind = "ok" THEN fetchedOK \cup { tweet.ConversationID } ELSE fetchedOK
    /\ fetchFailed' =
         IF fetch.kind = "error" THEN fetchFailed \cup { tweet.ConversationID }
         ELSE fetchFailed
    /\ replacedRoots' =
         IF /\ emitted /\ fetch.kind = "ok" /\ Len(outputTweets) > 0
            /\ last.emitted /\ last.tweet.ID = tweet.ConversationID
         THEN replacedRoots \cup { tweet.ConversationID } ELSE replacedRoots
    /\ resolvedConvs' =
         IF emitted /\ fetch.kind = "ok"
         THEN resolvedConvs \cup { tweet.ConversationID } ELSE resolvedConvs
    /\ UNCHANGED << conversationOf, accounts, cursorSaveErr, shortPages, otherVars >>

\* Mutant of SkipError: the error is logged but the record is not skipped, so
\* the zero-value tweet goes through the standalone branch.
SkipErrorFallsThrough ==
    /\ LoopHead(ErrorRecord, NoFetch, TRUE)
    /\ threadDelay' = FALSE
    /\ outputTweets' = Append(outputTweets, StandaloneOutput(ErrorRecord))
    /\ processedTweets' = processedTweets \cup { NoID }
    /\ UNCHANGED << pc, processedThreads, ThreadCalls >>

\* tweet.Error != nil: log and continue.
SkipError ==
    /\ LoopHead(ErrorRecord, NoFetch, FALSE)
    /\ threadDelay' = FALSE
    /\ UNCHANGED << pc, outputTweets, processedThreads, processedTweets, ThreadCalls >>

\* tracker.isProcessedTweet(tweet.ID): continue.
SkipProcessedTweet ==
    \E id \in IDs :
        /\ isProcessedTweet(id)
        /\ LoopHead(TweetRecord(id), NoFetch, FALSE)
        /\ threadDelay' = FALSE
        /\ UNCHANGED << pc, outputTweets, processedThreads, processedTweets, ThreadCalls >>

\* tweet.ID != tweet.ConversationID and the thread is processed: continue.
SkipProcessedThread ==
    \E id \in IDs :
        /\ ~isProcessedTweet(id)
        /\ id # conversationOf[id]
        /\ isProcessedThread(conversationOf[id])
        /\ LoopHead(TweetRecord(id), NoFetch, FALSE)
        /\ threadDelay' = FALSE
        /\ UNCHANGED << pc, outputTweets, processedThreads, processedTweets, ThreadCalls >>

\* Mutant of NeedsThread: the processed-thread check is missing.
NeedsThreadUnchecked(id) ==
    /\ ~isProcessedTweet(id)
    /\ id # conversationOf[id]

\* The guard of the thread-detail fetch.
NeedsThread(id) ==
    /\ ~isProcessedTweet(id)
    /\ id # conversationOf[id]
    /\ ~isProcessedThread(conversationOf[id])

\* The condition under which the fetched thread is emitted.
IsEmittedThread(fullThread) ==
    fullThread.IsSelfThread /\ Len(fullThread.Thread) > 0

\* Mutant of ThreadFetchFailed: the record is marked processed on the error path.
ThreadFetchFailedMarks ==
    \E id \in IDs :
        /\ NeedsThread(id)
        /\ LoopHead(TweetRecord(id), FetchError, FALSE)
        /\ threadDelay' = FALSE
        /\ ThreadCalls' = ThreadCalls + 1
        /\ processedTweets' = processedTweets \cup { id }
        /\ UNCHANGED << pc, outputTweets, processedThreads >>

\* GetTweet returned an error: log and continue.
ThreadFetchFailed ==
    \E id \in IDs :
        /\ NeedsThread(id)
        /\ LoopHead(TweetRecord(id), FetchError, FALSE)
        /\ threadDelay' = FALSE
        /\ ThreadCalls' = ThreadCalls + 1
        /\ UNCHANGED << pc, outputTweets, processedThreads, processedTweets >>

\* GetTweet returned a tweet that is not a self-thread or has no members.
ThreadNotEmitted ==
    \E id \in IDs :
        /\ NeedsThread(id)
        /\ \E fullThread \in GetTweet(conversationOf[id]) :
            /\ fullThread.kind = "ok"
            /\ ~IsEmittedThread(fullThread)
            /\ LoopHead(TweetRecord(id), fullThread, FALSE)
            /\ threadDelay' = FALSE
        /\ ThreadCalls' = ThreadCalls + 1
        /\ UNCHANGED << pc, outputTweets, processedThreads, processedTweets >>

\* outputTweets[:len(outputTweets)-1] followed by append(outputTweets, threadOutput).
ReplaceLast(out, threadOutput) == Append(SubSeq(out, 1, Len(out) - 1), threadOutput)

\* GetTweet returned a self-thread with members: the last output element is
\* removed, the thread is appended and marked processed, and the loop sleeps
\* for five seconds.
ThreadResolved ==
    \E id \in IDs :
        /\ NeedsThread(id)
        /\ Len(outputTweets) > 0
        /\ \E fullThread \in GetTweet(conversationOf[id]) :
            /\ fullThread.kind = "ok"
            /\ IsEmittedThread(fullThread)
            /\ LoopHead(TweetRecord(id), fullThread, TRUE)
            /\ threadDelay' = TRUE
            /\ outputTweets' =
                 ReplaceLast(outputTweets, ThreadOutput(conversationOf[id], fullThread))
            /\ processedThreads' = markThreadProcessedThreads(conversationOf[id], fullThread)
            /\ processedTweets' = markThreadProcessedTweets(conversationOf[id], fullThread)
        /\ ThreadCalls' = ThreadCalls + 1
        /\ UNCHANGED pc

\* The same with an empty output: outputTweets[:-1] is a slice out of range,
\* a runtime panic that ends the process.
ThreadResolvedPanic ==
    \E id \in IDs :
        /\ NeedsThread(id)
        /\ Len(outputTweets) = 0
        /\ \E fullThread \in GetTweet(conversationOf[id]) :
            /\ fullThread.kind = "ok"
            /\ IsEmittedThread(fullThread)
            /\ LoopHead(TweetRecord(id), fullThread, FALSE)
            /\ threadDelay' = FALSE
        /\ ThreadCalls' = ThreadCalls + 1
        /\ pc' = "panicked"
        /\ UNCHANGED << outputTweets, processedThreads, processedTweets >>

\* tweet.ID == tweet.ConversationID: append the tweet, mark it processed.
Standalone ==
    \E id \in IDs :
        /\ ~isProcessedTweet(id)
        /\ id = conversationOf[id]
        /\ LoopHead(TweetRecord(id), NoFetch, TRUE)
        /\ threadDelay' = FALSE
        /\ outputTweets' = Append(outputTweets, StandaloneOutput(TweetRecord(id)))
        /\ processedTweets' = markTweetProcessed(id)
        /\ UNCHANGED << pc, processedThreads, ThreadCalls >>

\* The GetTweets channel is closed: the range loop ends.
StreamExhausted ==
    /\ pc = "loop"
    /\ pc' = "save"
    /\ UNCHANGED << conversationOf, accounts, shortPages, outputTweets, processedThreads,
                    processedTweets, currentAccount, lastCount, TimelineCalls,
                    ThreadCalls, AccountCalls, pulled, last, standaloneSeen,
                    emittedBy, fetchedOK, fetchFailed, replacedRoots,
                    resolvedConvs, cursorSaveErr, threadDelay, pagesFetched,
                    inPage, otherVars >>

\* Mutant of AfterCursorSave: a failed cursor save is fatal.
AfterCursorSaveFatal(err) == IF err THEN "fatal" ELSE "write"

\* Where main goes after SaveCursorsToFile returned: the error is only logged.
AfterCursorSave(err) == "write"

\* scraper.SaveCursorsToFile("cursors.json"): whether it returns an error or
\* not (the error is logged only), main goes on to write the output.
SaveCursors ==
    /\ pc = "save"
    /\ \E err \in BOOLEAN :
        /\ cursorSaveErr' = err
        /\ pc' = AfterCursorSave(err)
    /\ UNCHANGED << conversationOf, accounts, shortPages, outputTweets, processedThreads,
                    processedTweets, currentAccount, lastCount, TimelineCalls,
                    ThreadCalls, AccountCalls, pulled, last, standaloneSeen,
                    emittedBy, fetchedOK, fetchFailed, replacedRoots,
                    resolvedConvs, threadDelay, pagesFetched, inPage, otherVars >>

\* os.Create / encoder.Encode of the output and the stats file:
\* log.Fatalf on an I/O error, otherwise the run is complete.
WriteOutput ==
    /\ pc = "write"
    /\ pc' \in { "done", "fatal" }
    /\ UNCHANGED << conversationOf, accounts, shortPages, outputTweets, processedThreads,
                    processedTweets, currentAccount, lastCount, TimelineCalls,
                    ThreadCalls, AccountCalls, pulled, last, standaloneSeen,
                    emittedBy, fetchedOK, fetchFailed, replacedRoots,
                    resolvedConvs, cursorSaveErr, threadDelay, pagesFetched,
                    inPage, otherVars >>

\* ------------------------------------------- library/scraper.go: cursors
\* A Go string is a sequence of characters.  Two characters stand for all:
\* a plain one, and the double quote, which JSON escapes.
Quote == "\""
Backslash == "\\"
Chars == { "a", Quote }
Strings(n) == UNION { [1 .. k -> Chars] : k \in 0 .. n }
Subjects == [1 .. 1 -> Chars]
Tokens == Strings(MaxTokenLen)
EmptyToken == << >>

\* The values of Scraper.cursorTracker: the nil map of a new Scraper, or a map.
NilMap == [isNil |-> TRUE, entries |-> << >>]
MakeMap(m) == [isNil |-> FALSE, entries |-> m]
TrackerValues ==
    { NilMap } \cup
    { MakeMap(m) : m \in UNION { [S -> Tokens] : S \in SUBSET Subjects } }

\* m[key] = value on a Go map.
SetEntry(m, key, value) ==
    [k \in DOMAIN m \cup { key } |-> IF k = key THEN value ELSE m[k]]

\* SaveCursor(username, cursor), as the new cursorTracker: the map is made on
\* first use.
SaveCursorValue(tracker, username, cursor) ==
    MakeMap(SetEntry(tracker.entries, username, cursor))

\* LoadCursor(username): "" on a nil map and for a missing key.
LoadCursorValue(tracker, username) ==
    IF tracker.isNil THEN EmptyToken
    ELSE IF username \in DOMAIN tracker.entries THEN tracker.entries[username]
    ELSE EmptyToken

\* --- encoding/json, as SaveCursorsToFile and LoadCursorsFromFile use it.
\* The file content is the sequence of the JSON tokens of the document; the
\* indentation MarshalIndent adds is white space between them and is left out.
Lex(kind, text) == [kind |-> kind, text |-> text]
LBrace == Lex("lbrace", << >>)
RBrace == Lex("rbrace", << >>)
Colon == Lex("colon", << >>)
Comma == Lex("comma", << >>)
Null == Lex("null", << >>)

\* The text of a JSON string literal: quote and backslash are escaped.
RECURSIVE EscapeString(_)
EscapeString(str) ==
    IF str = << >> THEN << >>
    ELSE ( IF Head(str) \in { Quote, Backslash }
           THEN << Backslash, Head(str) >> ELSE << Head(str) >> )
         \o EscapeString(Tail(str))

\* A literal is well formed when every quote in it is escaped.
RECURSIVE ValidLiteral(_)
ValidLiteral(text) ==
    IF text = << >> THEN TRUE
    ELSE IF Head(text) = Backslash
         THEN Len(text) >= 2 /\ ValidLiteral(SubSeq(text, 3, Len(text)))
    ELSE Head(text) # Quote /\ ValidLiteral(Tail(text))

\* Mutant of UnescapeString: the escapes are left in the decoded string.
UnescapeStringRaw(text) == text

\* The string a well-formed literal stands for.
RECURSIVE UnescapeString(_)
UnescapeString(text) ==
    IF text = << >> THEN << >>
    ELSE IF Head(text) = Backslash
         THEN << text[2] >> \o UnescapeString(SubSeq(text, 3, Len(text)))
    ELSE << Head(text) >> \o UnescapeString(Tail(text))

\* Byte order of the characters, and of strings: json sorts the map keys.
CharCode(c) == IF c = Quote THEN 34 ELSE IF c = Backslash THEN 92 ELSE 97
RECURSIVE KeyLess(_, _)
KeyLess(s, t) ==
    IF t = << >> THEN FALSE
    ELSE IF s = << >> THEN TRUE
    ELSE IF Head(s) # Head(t) THEN CharCode(Head(s)) < CharCode(Head(t))
    ELSE KeyLess(Tail(s), Tail(t))

RECURSIVE SortedKeys(_)
SortedKeys(keys) ==
    IF keys = {} THEN << >>
    ELSE LET least == CHOOSE k \in keys : \A other \in keys \ { k } : KeyLess(k, other)
         IN  << least >> \o SortedKeys(keys \ { least })

RECURSIVE MarshalMembers(_, _)
MarshalMembers(m, keys) ==
    IF keys = << >> THEN << >>
    ELSE << Lex("string", EscapeString(Head(keys))), Colon,
            Lex("string", EscapeString(m[Head(keys)])) >>
         \o ( IF Len(keys) > 1 THEN << Comma >> ELSE << >> )
         \o MarshalMembers(m, Tail(keys))

\* json.MarshalIndent(s.cursorTracker, "", "  "): null for the nil map, else
\* an object with the keys in sorted order.
MarshalIndent(tracker) ==
    IF tracker.isNil THEN << Null >>
    ELSE << LBrace >>
         \o MarshalMembers(tracker.entries, SortedKeys(DOMAIN tracker.entries))
         \o << RBrace >>

\* The members of an object from position i on, stored into the map acc:
\* whether the text is a valid document, and the map after it.
RECURSIVE UnmarshalMembers(_, _, _)
UnmarshalMembers(data, i, acc) ==
    IF /\ i + 3 <= Len(data)
       /\ data[i].kind = "string" /\ ValidLiteral(data[i].text)
       /\ data[i + 1].kind = "colon"
       /\ data[i + 2].kind = "string" /\ ValidLiteral(data[i + 2].text)
    THEN LET next == SetEntry(acc, UnescapeString(data[i].text),
                              UnescapeString(data[i + 2].text))
         IN  IF data[i + 3].kind = "rbrace"
             THEN [ok |-> i + 3 = Len(data), entries |-> next]
             ELSE IF data[i + 3].kind = "comma"
             THEN UnmarshalMembers(data, i + 4, next)
             ELSE [ok |-> FALSE, entries |-> acc]
    ELSE [ok |-> FALSE, entries |-> acc]

\* json.Unmarshal(data, &s.cursorTracker): the error it returns and the new
\* cursorTracker.  An invalid document changes nothing; null sets the map to
\* nil; an object is stored into the map, which is made when it is nil and
\* keeps the entries the object does not name.
Unmarshal(data, tracker) ==
    IF data = << Null >> THEN [err |-> FALSE, tracker |-> NilMap]
    ELSE IF data = << LBrace, RBrace >>
    THEN [err |-> FALSE, tracker |-> MakeMap(tracker.entries)]
    ELSE IF Len(data) >= 1 /\ data[1].kind = "lbrace"
              /\ UnmarshalMembers(data, 2, << >>).ok
    THEN [err |-> FALSE,
          tracker |-> MakeMap(UnmarshalMembers(data, 2, tracker.entries).entries)]
    ELSE [err |-> TRUE, tracker |-> tracker]

\* Mutant of ReadMissingFile: the os.IsNotExist check is missing.
ReadMissingFileFails(tracker) == [err |-> TRUE, tracker |-> tracker]

\* LoadCursorsFromFile when os.ReadFile reports that the file does not exist.
ReadMissingFile(tracker) == [err |-> FALSE, tracker |-> tracker]

\* LoadCursorsFromFile(filename): the error it returns and the new cursorTracker.
LoadCursorsFromFileValue(file, tracker) ==
    IF ~file.exists THEN ReadMissingFile(tracker)
    ELSE Unmarshal(file.data, tracker)

NoFile == [exists |-> FALSE, data |-> << >>]
NotSaving == [active |-> FALSE, data |-> << >>]
NothingPersisted == [valid |-> FALSE, tracker |-> NilMap]
Op(op, subject, token, err, fresh) ==
    [op |-> op, subject |-> subject, token |-> token, err |-> err, fresh |-> fresh]

\* A new Scraper and no cursor file.
CursorStart ==
    /\ cursorTracker = NilMap
    /\ cursorFile = NoFile
    /\ saving = NotSaving
    /\ cursorOps = 0
    /\ lastOp = Op("New", << >>, << >>, FALSE, TRUE)
    /\ saved = << >>
    /\ everSaved = {}
    /\ persisted = NothingPersisted
    /\ fileState = "absent"

\* Every step of the cursor store is counted; none runs while the write of
\* SaveCursorsToFile is in progress, except the steps of that write.
CursorStep(writing) ==
    /\ cursorOps < MaxCursorOps
    /\ cursorOps' = cursorOps + 1
    /\ saving.active = writing
    /\ UNCHANGED << mainVars, startVars, concVars >>

SaveCursor ==
    \E username \in Subjects, cursor \in Tokens :
        /\ CursorStep(FALSE)
        /\ cursorTracker' = SaveCursorValue(cursorTracker, username, cursor)
        /\ lastOp' = Op("SaveCursor", username, cursor, FALSE, cursorTracker.isNil)
        /\ saved' = SetEntry(saved, username, cursor)
        /\ everSaved' = everSaved \cup { username }
        /\ UNCHANGED << cursorFile, saving, persisted, fileState >>

LoadCursor ==
    \E username \in Subjects :
        /\ CursorStep(FALSE)
        /\ lastOp' = Op("LoadCursor", username, LoadCursorValue(cursorTracker, username),
                        FALSE, cursorTracker.isNil)
        /\ UNCHANGED << cursorTracker, cursorFile, saving, saved, everSaved,
                        persisted, fileState >>

\* SaveCursorsToFile up to the open of os.WriteFile: the data is marshalled
\* and the file is created or truncated.
SaveCursorsToFileOpen ==
    /\ CursorStep(FALSE)
    /\ saving' = [active |-> TRUE, data |-> MarshalIndent(cursorTracker)]
    /\ cursorFile' = [exists |-> TRUE, data |-> << >>]
    /\ fileState' = "interrupted"
    /\ lastOp' = Op("SaveCursorsToFileOpen", << >>, << >>, FALSE, cursorTracker.isNil)
    /\ UNCHANGED << cursorTracker, saved, everSaved, persisted >>

\* A part of the data reaches the file.
WritePart ==
    /\ CursorStep(TRUE)
    /\ \E k \in Len(cursorFile.data) + 1 .. Len(saving.data) - 1 :
        cursorFile' = [exists |-> TRUE, data |-> SubSeq(saving.data, 1, k)]
    /\ lastOp' = Op("WritePart", << >>, << >>, FALSE, cursorTracker.isNil)
    /\ UNCHANGED << cursorTracker, saving, saved, everSaved, persisted, fileState >>

\* The rest of the data reaches the file and SaveCursorsToFile returns nil.
WriteAll ==
    /\ CursorStep(TRUE)
    /\ cursorFile' = [exists |-> TRUE, data |-> saving.data]
    /\ saving' = NotSaving
    /\ persisted' = [valid |-> TRUE, tracker |-> cursorTracker]
    /\ fileState' = "complete"
    /\ lastOp' = Op("SaveCursorsToFile", << >>, << >>, FALSE, cursorTracker.isNil)
    /\ UNCHANGED << cursorTracker, saved, everSaved >>

\* The write fails part way: SaveCursorsToFile returns the error.
WriteFails ==
    /\ CursorStep(TRUE)
    /\ saving' = NotSaving
    /\ lastOp' = Op("SaveCursorsToFile", << >>, << >>, TRUE, cursorTracker.isNil)
    /\ UNCHANGED << cursorTracker, cursorFile, saved, everSaved, persisted, fileState >>

\* The process ends during the write; the next run starts with a new Scraper.
Crash ==
    /\ CursorStep(TRUE)
    /\ saving' = NotSaving
    /\ cursorTracker' = NilMap
    /\ saved' = << >>
    /\ lastOp' = Op("Crash", << >>, << >>, FALSE, TRUE)
    /\ UNCHANGED << cursorFile, everSaved, persisted, fileState >>

\* twitterscraper.New() of a later run.
NewScraper ==
    /\ CursorStep(FALSE)
    /\ cursorTracker' = NilMap
    /\ saved' = << >>
    /\ lastOp' = Op("New", << >>, << >>, FALSE, TRUE)
    /\ UNCHANGED << cursorFile, saving, everSaved, persisted, fileState >>

LoadCursorsFromFile ==
    LET result == LoadCursorsFromFileValue(cursorFile, cursorTracker) IN
    /\ CursorStep(FALSE)
    /\ cursorTracker' = result.tracker
    /\ lastOp' = Op("LoadCursorsFromFile", << >>, << >>, result.err, cursorTracker.isNil)
    /\ saved' = IF cursorFile.exists /\ ~result.err THEN << >> ELSE saved
    /\ UNCHANGED << cursorFile, saving, everSaved, persisted, fileState >>

CursorNext ==
    \/ SaveCursor
    \/ LoadCursor
    \/ SaveCursorsToFileOpen
    \/ WritePart
    \/ WriteAll
    \/ WriteFails
    \/ Crash
    \/ NewScraper
    \/ LoadCursorsFromFile

\* The scraping loop at rest, for the histories of the cursor store alone.
MainParked ==
    /\ MainInit
    /\ shortPages = FALSE
    /\ conversationOf = [x \in IDs |-> x]
    /\ accounts = 1

\* ------------------------------------------------ main: before the loop
\* The configurations main can be started with: whether godotenv.Load finds
\* the .env file, whether PROXY_USERNAME, PROXY_PASSWORD and PROXY_IP are set,
\* whether the proxy URL built from them parses, and for every account
\* whether its auth token and its CSRF token are set.
AccountInfos == [AuthToken : BOOLEAN, CSRFToken : BOOLEAN]
Configs ==
    [ dotenv : BOOLEAN, proxyUsername : BOOLEAN, proxyPassword : BOOLEAN,
      proxyIP : BOOLEAN, proxyURLParses : BOOLEAN,
      accounts : UNION { [1 .. n -> AccountInfos] : n \in 0 .. MaxAccounts } ]

\* validateAccounts(accounts) returns nil.
validateAccounts(accs) ==
    /\ Len(accs) # 0
    /\ \A i \in 1 .. Len(accs) : accs[i].AuthToken /\ accs[i].CSRFToken

\* getProxyURL does not call log.Fatal.
getProxyURL(cfg) == cfg.proxyUsername /\ cfg.proxyPassword /\ cfg.proxyIP

NotValidated == [proxy |-> FALSE, accounts |-> FALSE]

\* main is started.
StartBegin ==
    /\ startPc = "env"
    /\ config \in Configs
    /\ requests = << >>
    /\ validated = NotValidated
    /\ fatalCause = "none"

\* The start of main is over and the loop runs, with a valid configuration.
StartDone ==
    /\ startPc = "loop"
    /\ config = [ dotenv |-> TRUE, proxyUsername |-> TRUE, proxyPassword |-> TRUE,
                  proxyIP |-> TRUE, proxyURLParses |-> TRUE,
                  accounts |-> [i \in 1 .. accounts |->
                                  [AuthToken |-> TRUE, CSRFToken |-> TRUE]] ]
    /\ requests = << >>
    /\ validated = [proxy |-> TRUE, accounts |-> TRUE]
    /\ fatalCause = "none"

\* log.Fatal: the process ends.
Fatal(cause) ==
    /\ startPc' = "fatal"
    /\ fatalCause' = cause

\* godotenv.Load()
LoadEnv ==
    /\ startPc = "env"
    /\ IF config.dotenv
       THEN startPc' = "cursors" /\ UNCHANGED fatalCause
       ELSE Fatal("config")
    /\ UNCHANGED << config, requests, validated, mainVars, cursorVars, concVars >>

\* scraper.LoadCursorsFromFile("cursors.json") on the new Scraper: an error is
\* a warning only.
LoadSavedCursors ==
    /\ startPc = "cursors"
    /\ startPc' = "proxy"
    /\ cursorTracker' = LoadCursorsFromFileValue(cursorFile, cursorTracker).tracker
    /\ UNCHANGED << config, requests, validated, fatalCause, mainVars, concVars,
                    cursorFile, saving, cursorOps, lastOp, saved, everSaved,
                    persisted, fileState >>

\* getProxyURL() and scraper.SetProxy(proxyURL)
ConfigureProxy ==
    /\ startPc = "proxy"
    /\ IF getProxyURL(config) /\ config.proxyURLParses
       THEN /\ startPc' = "verify"
            /\ validated' = [validated EXCEPT !.proxy = TRUE]
            /\ UNCHANGED fatalCause
       ELSE Fatal("config") /\ UNCHANGED validated
    /\ UNCHANGED << config, requests, mainVars, cursorVars, concVars >>

\* An outbound request is issued.
Request(name) == requests' = Append(requests, name)

\* scraper.VerifyProxyConnection(proxyIP): a GET through the proxy.
VerifyProxy ==
    /\ startPc = "verify"
    /\ Request("VerifyProxyConnection")
    /\ \E ok \in BOOLEAN :
        IF ok THEN startPc' = "accounts" /\ UNCHANGED fatalCause
        ELSE Fatal("network")
    /\ UNCHANGED << config, validated, mainVars, cursorVars, concVars >>

\* validateAccounts(accounts)
ValidateAccounts ==
    /\ startPc = "accounts"
    /\ IF validateAccounts(config.accounts)
       THEN /\ startPc' = "auth"
            /\ validated' = [validated EXCEPT !.accounts = TRUE]
            /\ UNCHANGED fatalCause
       ELSE Fatal("config") /\ UNCHANGED validated
    /\ UNCHANGED << config, requests, mainVars, cursorVars, concVars >>

\* SetAuthToken of the first account, the test GetProfile (an error is logged
\* only) and IsLoggedIn.
Authenticate ==
    /\ startPc = "auth"
    /\ requests' = requests \o << "GetProfile", "IsLoggedIn" >>
    /\ \E loggedIn \in BOOLEAN :
        IF loggedIn THEN startPc' = "profile" /\ UNCHANGED fatalCause
        ELSE Fatal("network")
    /\ UNCHANGED << config, validated, mainVars, cursorVars, concVars >>

\* scraper.GetProfile(username), then the trackers are made and the loop starts.
GetTargetProfile ==
    /\ startPc = "profile"
    /\ Request("GetProfile")
    /\ \E ok \in BOOLEAN :
        IF ok THEN startPc' = "loop" /\ UNCHANGED fatalCause
        ELSE Fatal("network")
    /\ UNCHANGED << config, validated, mainVars, cursorVars, concVars >>

StartNext ==
    \/ LoadEnv
    \/ LoadSavedCursors
    \/ ConfigureProxy
    \/ VerifyProxy
    \/ ValidateAccounts
    \/ Authenticate
    \/ GetTargetProfile

\* ------------------------------ library/scraper.go: concurrent callers
\* Goroutines call the four cursor methods of one Scraper at the same time.
\* A step is what a call does without giving up a lock it needs: the file is
\* read, truncated and written outside the exclusive lock.
Threads == 1 .. MaxThreads
NoThread == 0

NoCall ==
    [ op |-> "none", username |-> << >>, cursor |-> << >>, pc |-> "idle",
      sawNil |-> FALSE, data |-> << >>, tracker |-> NilMap ]

\* A call of one of the four methods, at its first statement.
NewCalls ==
    { [NoCall EXCEPT !.op = "SaveCursor", !.username = u, !.cursor = c, !.pc = "start"] :
        u \in Subjects, c \in Tokens }
    \cup { [NoCall EXCEPT !.op = "LoadCursor", !.username = u, !.pc = "start"] :
             u \in Subjects }
    \cup { [NoCall EXCEPT !.op = op, !.pc = "start"] :
             op \in { "SaveCursorsToFile", "LoadCursorsFromFile" } }

Unlocked == [writer |-> NoThread, readers |-> {}]

\* cursorMutex.Lock() returns: nobody holds the mutex.
CanLock == cursorMutex.writer = NoThread /\ cursorMutex.readers = {}

\* cursorMutex.RLock() returns: no writer holds the mutex.
CanRLock == cursorMutex.writer = NoThread

\* A write of data at offset 0 of a file that holds old.
WriteAtStart(old, data) == data \o SubSeq(old, Len(data) + 1, Len(old))

\* No goroutine is in a call.
ConcStart ==
    /\ running = [t \in Threads |-> NoCall]
    /\ cursorMutex = Unlocked
    /\ started = 0
    /\ serialTracker = NilMap
    /\ savedTokens = [u \in Subjects |-> {}]
    /\ lastSaved = << >>
    /\ phantomLoad = FALSE
    /\ written = NilMap

\* What no concurrent call touches.
ConcFrame ==
    UNCHANGED << mainVars, startVars, saving, cursorOps, lastOp, saved, everSaved,
                 persisted, fileState >>

\* The call of thread t returns.
Return(t) == running' = [running EXCEPT ![t] = NoCall]

\* A goroutine calls one of the methods.
Call(t) ==
    /\ running[t].pc = "idle"
    /\ started < MaxCalls
    /\ started' = started + 1
    /\ \E call \in NewCalls : running' = [running EXCEPT ![t] = call]
    /\ UNCHANGED << cursorTracker, cursorFile, cursorMutex, serialTracker,
                    savedTokens, lastSaved, phantomLoad, written >>
    /\ ConcFrame

\* SaveCursor: Lock, and the test s.cursorTracker == nil.
SaveCursorLock(t) ==
    /\ running[t].op = "SaveCursor" /\ running[t].pc = "start"
    /\ CanLock
    /\ cursorMutex' = [cursorMutex EXCEPT !.writer = t]
    /\ running' = [running EXCEPT ![t].pc = "locked", ![t].sawNil = cursorTracker.isNil]
    /\ UNCHANGED << cursorTracker, cursorFile, started, serialTracker, savedTokens,
                    lastSaved, phantomLoad, written >>
    /\ ConcFrame

\* SaveCursor: the map is made if the test found nil, the entry is stored,
\* and the deferred Unlock runs.
SaveCursorStore(t) ==
    /\ running[t].op = "SaveCursor" /\ running[t].pc = "locked"
    /\ cursorTracker' =
         SaveCursorValue(IF running[t].sawNil THEN NilMap ELSE cursorTracker,
                         running[t].username, running[t].cursor)
    /\ cursorMutex' = [cursorMutex EXCEPT !.writer = NoThread]
    /\ serialTracker' = SaveCursorValue(serialTracker, running[t].username, running[t].cursor)
    /\ savedTokens' = [savedTokens EXCEPT ![running[t].username] = @ \cup { running[t].cursor }]
    /\ lastSaved' = SetEntry(lastSaved, running[t].username, running[t].cursor)
    /\ Return(t)
    /\ UNCHANGED << cursorFile, started, phantomLoad, written >>
    /\ ConcFrame

\* LoadCursor: RLock, the read of the map, RUnlock.
LoadCursorCall(t) ==
    /\ running[t].op = "LoadCursor" /\ running[t].pc = "start"
    /\ CanRLock
    /\ phantomLoad' =
         ( \/ phantomLoad
           \/ LoadCursorValue(cursorTracker, running[t].username)
                \notin { EmptyToken } \cup savedTokens[running[t].username] )
    /\ Return(t)
    /\ UNCHANGED << cursorTracker, cursorFile, cursorMutex, started, serialTracker,
                    savedTokens, lastSaved, written >>
    /\ ConcFrame

\* SaveCursorsToFile: RLock and json.MarshalIndent of the map.
SaveToFileMarshal(t) ==
    /\ running[t].op = "SaveCursorsToFile" /\ running[t].pc = "start"
    /\ CanRLock
    /\ cursorMutex' = [cursorMutex EXCEPT !.readers = @ \cup { t }]
    /\ running' = [running EXCEPT ![t].pc = "open", ![t].data = MarshalIndent(cursorTracker),
                              ![t].tracker = cursorTracker]
    /\ UNCHANGED << cursorTracker, cursorFile, started, serialTracker, savedTokens,
                    lastSaved, phantomLoad, written >>
    /\ ConcFrame

\* SaveCursorsToFile: os.WriteFile creates or truncates the file.
SaveToFileOpen(t) ==
    /\ running[t].op = "SaveCursorsToFile" /\ running[t].pc = "open"
    /\ cursorFile' = [exists |-> TRUE, data |-> << >>]
    /\ running' = [running EXCEPT ![t].pc = "write"]
    /\ UNCHANGED << cursorTracker, cursorMutex, started, serialTracker, savedTokens,
                    lastSaved, phantomLoad, written >>
    /\ ConcFrame

\* SaveCursorsToFile: os.WriteFile writes the data, and the deferred RUnlock
\* runs.
SaveToFileWrite(t) ==
    /\ running[t].op = "SaveCursorsToFile" /\ running[t].pc = "write"
    /\ cursorFile' = [exists |-> TRUE, data |-> WriteAtStart(cursorFile.data, running[t].data)]
    /\ cursorMutex' = [cursorMutex EXCEPT !.readers = @ \ { t }]
    /\ written' = running[t].tracker
    /\ Return(t)
    /\ UNCHANGED << cursorTracker, started, serialTracker, savedTokens, lastSaved, phantomLoad >>
    /\ ConcFrame

\* LoadCursorsFromFile: os.ReadFile, with no lock held.  A missing file ends
\* the call.
LoadFromFileRead(t) ==
    /\ running[t].op = "LoadCursorsFromFile" /\ running[t].pc = "start"
    /\ IF cursorFile.exists
       THEN running' = [running EXCEPT ![t].pc = "read", ![t].data = cursorFile.data]
       ELSE Return(t)
    /\ UNCHANGED << cursorTracker, cursorFile, cursorMutex, started, serialTracker,
                    savedTokens, lastSaved, phantomLoad, written >>
    /\ ConcFrame

\* LoadCursorsFromFile: Lock, json.Unmarshal of the data read, Unlock.  Run
\* alone, the call stores the document the file holds now.
LoadFromFileStore(t) ==
    /\ running[t].op = "LoadCursorsFromFile" /\ running[t].pc = "read"
    /\ CanLock
    /\ cursorTracker' = Unmarshal(running[t].data, cursorTracker).tracker
    /\ serialTracker' = LoadCursorsFromFileValue(cursorFile, serialTracker).tracker
    /\ Return(t)
    /\ UNCHANGED << cursorFile, cursorMutex, started, savedTokens, lastSaved, phantomLoad, written >>
    /\ ConcFrame

ConcNext ==
    \E t \in Threads :
        \/ Call(t)
        \/ SaveCursorLock(t)
        \/ SaveCursorStore(t)
        \/ LoadCursorCall(t)
        \/ SaveToFileMarshal(t)
        \/ SaveToFileOpen(t)
        \/ SaveToFileWrite(t)
        \/ LoadFromFileRead(t)
        \/ LoadFromFileStore(t)

ConcInit == MainParked /\ CursorStart /\ StartDone /\ ConcStart

ConcSpec == ConcInit /\ [][ConcNext]_vars

CursorInit == MainParked /\ CursorStart /\ StartDone /\ ConcStart

CursorSpec == CursorInit /\ [][CursorNext]_vars

StartInit == MainParked /\ CursorStart /\ StartBegin /\ ConcStart

StartSpec == StartInit /\ [][StartNext]_vars

Next ==
    \/ SkipError
    \/ SkipProcessedTweet
    \/ SkipProcessedThread
    \/ ThreadFetchFailed
    \/ ThreadNotEmitted
    \/ ThreadResolved
    \/ ThreadResolvedPanic
    \/ Standalone
    \/ StreamExhausted
    \/ SaveCursors
    \/ WriteOutput

\* The run of main on a platform whose timeline pages are full.
Init == MainInit /\ shortPages = FALSE /\ CursorStart /\ StartDone /\ ConcStart

Spec == Init /\ [][Next]_vars

\* The run of main on a platform whose timeline pages hold up to PageSize
\* records.
PageInit == MainInit /\ shortPages = TRUE /\ CursorStart /\ StartDone /\ ConcStart

PageSpec == PageInit /\ [][Next]_vars

TypeOK ==
    /\ pc \in { "loop", "panicked", "save", "write", "done", "fatal" }
    /\ processedThreads \subseteq IDs
    /\ processedTweets \subseteq IDs
    /\ currentAccount \in 0 .. accounts - 1

\* ------------------------------------------------- vocabulary of the claims
\* A thread unit carries its member list; a standalone unit has none.
IsThreadUnit(u) == Len(u.ThreadTweets) > 0
IsStandaloneUnit(u) == Len(u.ThreadTweets) = 0

\* The positions of the output that hold a unit with the given ID.
UnitsWithID(id) == { i \in 1 .. Len(outputTweets) : outputTweets[i].ID = id }

\* Sum of the per-account call counts.
RECURSIVE SumCalls(_, _)
SumCalls(calls, n) == IF n = 0 THEN 0 ELSE calls[n] + SumCalls(calls, n - 1)
AccountCallsTotal == SumCalls(AccountCalls, accounts)

\* The loop has ended and the output was written.
RunComplete == pc = "done"

\* ------------------------------------------------------------------ claims

\* C1: the output holds at most one unit per ID: no two output units carry
\* the same ID, so no ID is emitted both as a standalone and as a thread unit.
C1_OneUnitPerID == \A id \in IDs : Cardinality(UnitsWithID(id)) <= 1

\* C2 (as stated): at the end of the run the number of output units equals
\* the number of conversations whose thread-detail fetch succeeded plus the
\* number of distinct standalone post IDs.
C2_CountEquals ==
    RunComplete =>
        Len(outputTweets) = Cardinality(fetchedOK) + Cardinality(standaloneSeen)

\* C2 (amended): the number of output units never exceeds the number of
\* conversations whose thread-detail fetch succeeded plus the number of
\* distinct standalone post IDs.
C2_NeverMore ==
    Len(outputTweets) <= Cardinality(fetchedOK) + Cardinality(standaloneSeen)

\* C2 witness: a complete run that emitted a thread unit and standalone units.
C2_Witness ==
    /\ RunComplete
    /\ \E i \in 1 .. Len(outputTweets) : IsThreadUnit(outputTweets[i])
    /\ \E i \in 1 .. Len(outputTweets) : IsStandaloneUnit(outputTweets[i])
    /\ fetchedOK # {}
    /\ standaloneSeen # {}

\* C3: for the timeline [standalone A, member B of conversation C] where the
\* thread-detail fetch of C returns the self-thread [B, D], the output is
\* [StandaloneUnit(A), ThreadUnit(C, [B, D])], the processed posts are
\* {A, B, C, D} and the processed threads are {C}: the unit emitted earlier
\* for A stays in the output.
C3_EarlierUnitStays ==
    \A A, B, C, D \in IDs :
        ( /\ Cardinality({ A, B, C, D }) = 4
          /\ conversationOf[A] = A /\ conversationOf[C] = C
          /\ conversationOf[B] = C /\ conversationOf[D] = C
          /\ pulled = 2
          /\ standaloneSeen = { A }
          /\ last.tweet = TweetRecord(B)
          /\ last.fetch = [kind |-> "ok", IsSelfThread |-> TRUE, Thread |-> << B, D >>] )
        => /\ outputTweets = << [ID |-> A, ThreadTweets |-> << >>],
                                [ID |-> C, ThreadTweets |-> << B, D >>] >>
           /\ processedTweets = { A, B, C, D }
           /\ processedThreads = { C }

\* C4: when a root R was appended as a standalone unit and the directly
\* following record, a member of conversation R, resolved the self-thread of
\* R, the final output contains exactly one unit with ID R and it is the
\* thread unit.
C4_ReplaceOnResolve ==
    RunComplete =>
        \A R \in replacedRoots :
            /\ Cardinality(UnitsWithID(R)) = 1
            /\ \A i \in UnitsWithID(R) : IsThreadUnit(outputTweets[i])

\* C5: no record and no thread-detail outcome terminates the process
\* abnormally: the loop runs to stream exhaustion and the run goes on to the
\* cursor save and the output write.
C5_NoAbnormalTermination == pc # "panicked"

\* C6: at the end of the run, for every conversation whose thread-detail
\* fetch was attempted and failed every time, the output contains a
\* standalone unit for the conversation root.
C6_FailedThreadKeepsRoot ==
    RunComplete =>
        \A conv \in fetchFailed \ fetchedOK :
            \E i \in UnitsWithID(conv) : IsStandaloneUnit(outputTweets[i])

\* C7: at every point of the run, every ID in processedThreads is the root
\* of a thread unit present in the output, and the root and every member of
\* that unit are in processedTweets.
C7_ProcessedThreadInOutput ==
    \A conv \in processedThreads :
        /\ conv \in processedTweets
        /\ \E i \in UnitsWithID(conv) :
              /\ IsThreadUnit(outputTweets[i])
              /\ Range(outputTweets[i].ThreadTweets) \subseteq processedTweets

\* C8: a record whose earlier processing appended a unit, delivered again,
\* leaves the output sequence as it was.
C8_ReplayAddsNothing ==
    [][ ( /\ pulled' = pulled + 1
          /\ ~last'.tweet.Error
          /\ last'.tweet.ID \in emittedBy )
        => outputTweets' = outputTweets ]_vars

\* C8 witness: the last record pulled is a replay of a record that had
\* appended a unit before.
C8_Witness ==
    /\ ~last.tweet.Error
    /\ ~last.emitted
    /\ last.tweet.ID \in emittedBy
    /\ Len(outputTweets) > 0

\* C9: the per-account call counts differ from one another by at most 1 at
\* every point of the run.
C9_RotationFair ==
    \A a, b \in 1 .. accounts : AccountCalls[a] - AccountCalls[b] <= 1

\* C9 witness: at least as many rotation steps as accounts, with several
\* accounts, and the counts not all equal.
C9_Witness ==
    /\ accounts >= 2
    /\ pulled >= accounts
    /\ \E a, b \in 1 .. accounts : AccountCalls[a] = AccountCalls[b] + 1

\* C10: at the end of the run the sum of the per-account call counts equals
\* the total PrintStats reports, TimelineCalls + ThreadCalls.
C10_AccountSumIsTotal ==
    RunComplete => AccountCallsTotal = TimelineCalls + ThreadCalls

\* A loop iteration: one more record was pulled.
RecordPulled == pulled' = pulled + 1

\* The iteration emitted a thread unit.
ThreadEmitted == RecordPulled /\ last'.emitted /\ last'.fetch.kind = "ok"

\* C15: when SaveCursorsToFile fails after the loop, the collected output is
\* unchanged and main goes on to the output-write step with it.
C15_SaveFailureKeepsOutput ==
    [][ (pc = "save" /\ cursorSaveErr')
        => (pc' = "write" /\ outputTweets' = outputTweets) ]_vars

\* C15 witness: the output-write step is reached after a failed cursor save,
\* with collected output.
C15_Witness == pc = "write" /\ cursorSaveErr /\ Len(outputTweets) > 0

\* C16: a step leaves the output, appends one unit, or (the only removal)
\* replaces exactly the last unit on thread resolution, and the unit replaced
\* is the standalone unit of the resolved thread's root.
C16_ReplaceIsRootOnly ==
    [][ LET n == Len(outputTweets) IN
        \/ outputTweets' = outputTweets
        \/ /\ Len(outputTweets') = n + 1
           /\ SubSeq(outputTweets', 1, n) = outputTweets
        \/ /\ ThreadEmitted
           /\ n > 0
           /\ Len(outputTweets') = n
           /\ SubSeq(outputTweets', 1, n - 1) = SubSeq(outputTweets, 1, n - 1)
           /\ IsStandaloneUnit(outputTweets[n])
           /\ outputTweets[n].ID = last'.tweet.ConversationID
           /\ outputTweets'[n].ID = last'.tweet.ConversationID ]_vars

\* C17: a record that carries an error leaves the output, processedTweets
\* and processedThreads unchanged, issues no thread-detail fetch, and the
\* loop goes on.
C17_ErrorRecordSkipped ==
    [][ (RecordPulled /\ last'.tweet.Error)
        => /\ outputTweets' = outputTweets
           /\ processedTweets' = processedTweets
           /\ processedThreads' = processedThreads
           /\ ThreadCalls' = ThreadCalls
           /\ last'.fetch = NoFetch
           /\ pc' = "loop" ]_vars

\* C17 witness: an error record was pulled after units were collected.
C17_Witness ==
    /\ last.tweet.Error /\ pulled >= 2
    /\ Len(outputTweets) > 0 /\ processedThreads # {}

\* C18: a failed thread-detail fetch leaves the output and both dedup sets
\* unchanged, and a later member record of a conversation whose fetch failed
\* and that has no thread unit yet triggers a new thread-detail fetch.
C18_FailedFetchIsRetried ==
    [][ RecordPulled =>
        /\ last'.fetch.kind = "error"
             => /\ outputTweets' = outputTweets
                /\ processedTweets' = processedTweets
                /\ processedThreads' = processedThreads
        /\ ( /\ ~last'.tweet.Error
             /\ last'.tweet.ID # last'.tweet.ConversationID
             /\ last'.tweet.ConversationID \in fetchFailed
             /\ last'.tweet.ConversationID \notin resolvedConvs )
             => /\ last'.fetch.kind # "none"
                /\ ThreadCalls' = ThreadCalls + 1 ]_vars

\* C18 witness: a conversation whose fetch had failed was fetched again, this
\* time with a result.
C18_Witness ==
    /\ last.fetch.kind = "ok"
    /\ last.tweet.ConversationID \in fetchFailed

\* C19: no thread-detail fetch is issued for a record whose ID is in
\* processedTweets or whose conversation is in processedThreads, and no
\* conversation gets a second fetch that ends in an emitted thread unit.
C19_NoFetchForProcessed ==
    [][ RecordPulled =>
        /\ ThreadCalls' # ThreadCalls
             => /\ last'.tweet.ID \notin processedTweets
                /\ last'.tweet.ConversationID \notin processedThreads
        /\ ThreadEmitted => last'.tweet.ConversationID \notin resolvedConvs ]_vars

\* C19 witness: a member record of a conversation with an emitted thread unit
\* was pulled and no fetch was issued for it.
C19_Witness ==
    /\ ~last.tweet.Error
    /\ last.tweet.ID # last.tweet.ConversationID
    /\ last.tweet.ConversationID \in resolvedConvs
    /\ last.fetch = NoFetch

\* C20: the ID of every output unit is in processedTweets, every ID in
\* processedThreads is in processedTweets, and a thread resolution adds the
\* root to processedThreads and the root with every member to
\* processedTweets in one step.
C20_OutputIsProcessed ==
    /\ [] ( /\ \A i \in 1 .. Len(outputTweets) : outputTweets[i].ID \in processedTweets
            /\ processedThreads \subseteq processedTweets )
    /\ [][ ThreadEmitted =>
             /\ processedThreads' =
                  processedThreads \cup { last'.tweet.ConversationID }
             /\ processedTweets' =
                  processedTweets \cup { last'.tweet.ConversationID }
                                  \cup Range(last'.fetch.Thread) ]_vars

\* C20 witness: a thread unit and a standalone unit are in the output.
C20_Witness ==
    /\ processedThreads # {}
    /\ \E i \in 1 .. Len(outputTweets) : IsThreadUnit(outputTweets[i])
    /\ \E i \in 1 .. Len(outputTweets) : IsStandaloneUnit(outputTweets[i])

\* ---------------------------------------------- claims on the cursor store
\* A step of the cursor store that was the given operation.
CursorOpDone(op) == cursorOps' = cursorOps + 1 /\ lastOp'.op = op

\* C11: when SaveCursorsToFile was interrupted during its write, a later
\* LoadCursorsFromFile on a new Scraper returns no error and yields the
\* mapping of the last completed save.
C11_InterruptedSaveKeepsPrior ==
    ( /\ lastOp.op = "LoadCursorsFromFile"
      /\ lastOp.fresh
      /\ fileState = "interrupted"
      /\ persisted.valid
      /\ DOMAIN persisted.tracker.entries # {} )
    => /\ ~lastOp.err
       /\ cursorTracker = persisted.tracker

\* C12: LoadCursor returns the token of the most recent SaveCursor of the
\* subject; a SaveCursor leaves the token of every other subject unchanged;
\* LoadCursorsFromFile on a new Scraper, from a file SaveCursorsToFile wrote
\* completely, returns no error and yields the mapping that was saved.
C12_CursorRoundTrip ==
    /\ [] ( ( lastOp.op = "LoadCursor" /\ lastOp.subject \in DOMAIN saved )
            => lastOp.token = saved[lastOp.subject] )
    /\ [][ CursorOpDone("SaveCursor") =>
             /\ LoadCursorValue(cursorTracker', lastOp'.subject) = lastOp'.token
             /\ \A other \in Subjects \ { lastOp'.subject } :
                   LoadCursorValue(cursorTracker', other)
                     = LoadCursorValue(cursorTracker, other) ]_vars
    /\ [][ ( /\ CursorOpDone("LoadCursorsFromFile")
             /\ cursorTracker.isNil
             /\ fileState = "complete" )
           => /\ ~lastOp'.err
              /\ cursorTracker' = persisted.tracker ]_vars

\* C12 witness: a new Scraper has loaded a file that holds two subjects, one
\* of them with a token that JSON escapes.
C12_Witness ==
    /\ lastOp.op = "LoadCursorsFromFile"
    /\ lastOp.fresh
    /\ fileState = "complete"
    /\ DOMAIN cursorTracker.entries = Subjects
    /\ \E u \in Subjects : cursorTracker.entries[u] = << Quote >>

\* C14: LoadCursor of a subject that was never saved returns the empty token,
\* also on a nil map; LoadCursorsFromFile of a file that does not exist
\* returns no error and leaves the cursor mapping unchanged.
C14_AbsenceIsNoError ==
    /\ [] ( ( lastOp.op = "LoadCursor" /\ lastOp.subject \notin everSaved )
            => lastOp.token = EmptyToken )
    /\ [][ ( CursorOpDone("LoadCursorsFromFile") /\ ~cursorFile.exists )
           => /\ ~lastOp'.err
              /\ cursorTracker' = cursorTracker ]_vars

\* C14 witness: a Scraper that holds a cursor has loaded from a file that
\* does not exist.
C14_Witness ==
    /\ lastOp.op = "LoadCursorsFromFile"
    /\ ~cursorFile.exists
    /\ ~cursorTracker.isNil
    /\ everSaved # {}

\* --------------------------------------------- claims on the start of main
\* C13: no outbound request is issued before the proxy configuration and the
\* account validation have both succeeded, and a run that a configuration
\* error ends has issued no request.
C13_NoRequestBeforeValidation ==
    /\ requests # << >> => validated.proxy /\ validated.accounts
    /\ fatalCause = "config" => requests = << >>

\* ------------------------------------------------ claims on the pacing
\* The last iteration of the loop issued a thread-detail fetch.
ThreadFetched == last.fetch.kind # "none"

\* C21: every thread-detail fetch, whatever its outcome, is followed by the
\* post-thread-fetch delay before the loop goes on.
C21_DelayAfterEveryFetch ==
    ThreadFetched /\ pc # "panicked" => threadDelay

\* C22: at the end of the run the TimelineCalls counter equals the number of
\* timeline pages fetched.
C22_TimelineCallsArePages ==
    RunComplete => TimelineCalls = pagesFetched

\* ------------------------------------- claims on the concurrent callers
\* No SaveCursorsToFile is between its RLock and its RUnlock.
NoWriteInProgress == cursorMutex.readers = {}

\* The map holds the token for the subject.
Stores(tracker, username, cursor) ==
    /\ ~tracker.isNil
    /\ username \in DOMAIN tracker.entries
    /\ tracker.entries[username] = cursor

\* The token of the latest SaveCursor of a subject is stored, whenever the
\* same calls run one at a time leave it stored.
NoUpdateLost ==
    \A u \in DOMAIN lastSaved :
        Stores(serialTracker, u, lastSaved[u]) => Stores(cursorTracker, u, lastSaved[u])

\* No LoadCursor returned a token that was never saved for its subject.
NoPhantomLoad == ~phantomLoad

\* The file holds the document of the map one completed write marshalled.
FileIsOneSnapshot ==
    NoWriteInProgress /\ cursorFile.exists => cursorFile.data = MarshalIndent(written)

\* C23: under every interleaving of concurrent calls no update is lost: the
\* tokens of the SaveCursor calls are stored, no LoadCursor returns a token
\* that was never saved for its subject, and the file a SaveCursorsToFile
\* wrote holds the map of one point in time.
C23_NoUpdateLost ==
    /\ NoUpdateLost
    /\ NoPhantomLoad
    /\ FileIsOneSnapshot
====
